---- MODULE Spec2Model ----
(***************************************************************************)
(* Request layer of the Atlassian MCP servers:                             *)
(*   - ApiClient.request (retry loop, TTL cache, rate limiter),            *)
(*   - JiraMCPServer.makeJiraRequest (410 Gone -> version downgrade),      *)
(*   - ErrorHandler.handle (error classification) and the CallTool         *)
(*     handlers that use it,                                               *)
(*   - ConfluenceMCPServer.checkV2ApiAvailability, createPage, updatePage. *)
(* Time is the value of Date.now() in abstract units; callers are the      *)
(* asynchronous tasks interleaved on the single event loop, one action per *)
(* run-to-next-await step.                                                 *)
(***************************************************************************)
EXTENDS Integers, Sequences, FiniteSets, TLC

VARIABLES
  \* ---- ApiClient instance ----
  cfg,              \* fields set by the constructor
  now,              \* Date.now()
  lastRequestTime,  \* this.lastRequestTime
  cache,            \* this.cache: cache key -> entry, NoEntry when absent
  \* ---- one ApiClient.request call per caller ----
  pc,               \* position of the call
  opts,             \* the options argument
  attempt,          \* loop variable of the retry loop
  lastError,        \* lastError / the error thrown
  status,           \* response.status once the headers are in
  retryAfterHeader,       \* Retry-After of that response, 0 when it has none
  timer,            \* pending setTimeout: abort timer, backoff or rate-limit sleep
  result,           \* value returned to the caller
  httpCount,        \* fetch() calls made by this call
  lastStart,        \* Date.now() at the latest fetch() call of a rate-limited instance, -1 before
  sleeps,           \* backoff delays slept by this call
  fromCache,        \* the call returned at line 157
  expired,          \* the lookup of the call deleted an expired entry (line 123)
  onlyServerErrors, \* every attempt so far failed with HTTP status >= 500
  \* ---- JiraMCPServer ----
  apiVersion,       \* this.apiVersion
  jpc,              \* position of each top-level makeJiraRequest call
  jframes,          \* its frames, outermost first: apiVersion argument and version
  jstatus,          \* response.status of the pending response
  jout,             \* outcome of the call
  \* ---- ErrorHandler ----
  herror,           \* the error object handed to handle()
  handled,          \* what handle() returned
  reply,            \* what a CallTool handler answered
  \* ---- ConfluenceMCPServer ----
  v2ApiAvailable,   \* this._v2ApiAvailable
  probes,           \* requests sent to /api/v2/spaces?limit=1 so far
  pageVersion,      \* version.number of the page, on the Confluence site
  kcall,            \* each tool call: position, arguments, locals, requests sent
  gpt               \* the getPageTasks call: search results, page fetches, outcome

clientVars == <<cfg, now, lastRequestTime, cache, pc, opts, attempt, lastError,
                status, retryAfterHeader, timer, result, httpCount, lastStart, sleeps,
                fromCache, expired, onlyServerErrors>>
jiraVars == <<apiVersion, jpc, jframes, jstatus, jout>>
handlerVars == <<herror, handled, reply>>
confVars == <<v2ApiAvailable, probes, pageVersion, kcall, gpt>>
vars == <<clientVars, jiraVars, handlerVars, confVars>>

(***************************************************************************)
(* JavaScript values that take part in truthiness tests and comparisons.   *)
(***************************************************************************)
Num(n) == [k |-> "num", n |-> n, s |-> ""]
Str(s) == [k |-> "str", n |-> 0, s |-> s]
Undef == [k |-> "undef", n |-> 0, s |-> ""]

\* if (v)
Truthy(v) == (v.k = "num" /\ v.n # 0) \/ (v.k = "str" /\ v.s # "")
\* v < n, v >= n: a non-numeric string converts to NaN, undefined too
JsLt(v, n) == v.k = "num" /\ v.n < n
JsGe(v, n) == v.k = "num" /\ v.n >= n
\* v === n
JsIs(v, n) == v.k = "num" /\ v.n = n
\* a || b
JsOr(a, b) == IF Truthy(a) THEN a ELSE b

(***************************************************************************)
(* Bounds of the model.                                                    *)
(***************************************************************************)
MaxTime == 8
MaxCacheTime == 4
MaxConcurrentTime == 3
MaxLiveTime == 5

(***************************************************************************)
(* ApiClient                                                               *)
(***************************************************************************)
Callers == {"c1", "c2"}

\* this.lastRequestTime = 0 of the constructor, on the model's clock: now = 0
\* is the Date.now() of the construction, far later than the epoch.
Epoch == 0 - 1000

DefaultMaxRetries == 3
DefaultRetryDelay == 1000
DefaultTimeout == 30000
DefaultRateLimitDelay == 0
DefaultCacheTimeout == 300000

\* config.x || d, for a numeric option (0 stands for an absent option too)
OrDefault(x, d) == IF x # 0 THEN x ELSE d

\* constructor(config)
Construct(config) ==
  [maxRetries     |-> OrDefault(config.maxRetries, DefaultMaxRetries),
   retryDelay     |-> OrDefault(config.retryDelay, DefaultRetryDelay),
   timeout        |-> OrDefault(config.timeout, DefaultTimeout),
   rateLimitDelay |-> OrDefault(config.rateLimitDelay, DefaultRateLimitDelay),
   enableCache    |-> config.enableCache,
   cacheTimeout   |-> OrDefault(config.cacheTimeout, DefaultCacheTimeout)]

\* Response bodies: the empty body and two non-empty ones; Malformed is a
\* body that response.json() rejects.
EmptyBody == ""
Values == {EmptyBody, "a", "b"}
Malformed == "<malformed>"
Null == "<null>"
\* if (cached)
TruthyValue(v) == v # Null /\ v # EmptyBody

Statuses == {200, 400, 401, 403, 404, 410, 422, 429, 500, 503}
\* The Retry-After header of a response: a 429 may carry one (0: none).
RetryAfterHeaders(s) == IF s = 429 THEN {0, 3} ELSE {0}
\* Mutant: every response counts as a success.
OkAnyStatus(s) == s >= 200
\* response.ok
Ok(s) == s >= 200 /\ s <= 299

\* The options argument: method absent, or one of the verbs.
Absent == ""
Methods == {Absent, "GET", "POST"}
Endpoint == "/items"

\* options.method === 'GET' || !options.method
IsGet(o) == o.method = "GET" \/ o.method = Absent

\* JSON.stringify(options): the own properties in insertion order
Stringify(o) == IF o.method = Absent THEN <<>> ELSE <<"method", o.method>>
\* `${url}:${JSON.stringify(options)}`
CacheKey(url, o) == <<url, Stringify(o)>>
CacheKeys == {CacheKey(Endpoint, [method |-> m]) : m \in {Absent, "GET"}}

NoEntry == [data |-> Null, timestamp |-> -1]
IsEntry(e) == e # NoEntry

\* Mutant: an entry whose age equals the timeout is still served.
GetCachedFreshInclusive(e, t, c) == IsEntry(e) /\ t - e.timestamp <= c.cacheTimeout
\* getCached: the freshness test of line 117
GetCachedFresh(e, t, c) == IsEntry(e) /\ t - e.timestamp < c.cacheTimeout
\* Mutant: an entry is served whatever its age.
GetCachedStale(key) ==
  IF cfg.enableCache /\ IsEntry(cache[key]) THEN cache[key].data ELSE Null
\* getCached: the value it returns
GetCached(key) ==
  IF ~cfg.enableCache THEN Null
  ELSE IF GetCachedFresh(cache[key], now, cfg) THEN cache[key].data
  ELSE Null
\* Mutant: a lookup deletes the entry it finds, fresh or not.
CacheAfterGetEvict(key) ==
  IF cfg.enableCache /\ IsEntry(cache[key])
  THEN [cache EXCEPT ![key] = NoEntry]
  ELSE cache
\* getCached: the cache it leaves
CacheAfterGet(key) ==
  IF cfg.enableCache /\ IsEntry(cache[key]) /\ ~GetCachedFresh(cache[key], now, cfg)
  THEN [cache EXCEPT ![key] = NoEntry]
  ELSE cache
\* Mutant: an entry that exists is not overwritten.
SetCachedKeepFirst(key, data) ==
  IF cfg.enableCache /\ ~IsEntry(cache[key])
  THEN [cache EXCEPT ![key] = [data |-> data, timestamp |-> now]]
  ELSE cache
\* setCached
SetCached(key, data) ==
  IF cfg.enableCache
  THEN [cache EXCEPT ![key] = [data |-> data, timestamp |-> now]]
  ELSE cache

\* Errors caught by the retry loop.
ApiError(s) == [name |-> "ApiError", status |-> s]
TimeoutError == ApiError(Str("TIMEOUT"))
FetchError == [name |-> "FetchError", status |-> Undef]
SyntaxError == [name |-> "SyntaxError", status |-> Undef]
NoError == [name |-> "none", status |-> Undef]

\* Mutant: only the authentication failures end the loop.
NonRetryableAuthOnly(e) == JsIs(e.status, 401) \/ JsIs(e.status, 403)
\* error.status && error.status < 500 && error.status !== 429
NonRetryable(e) == Truthy(e.status) /\ JsLt(e.status, 500) /\ ~JsIs(e.status, 429)

RECURSIVE Pow2(_)
Pow2(n) == IF n = 0 THEN 1 ELSE 2 * Pow2(n - 1)
\* Mutant: the same delay before every retry.
BackoffDelayConstant(c, n) == c.retryDelay
\* this.retryDelay * Math.pow(2, attempt)
BackoffDelay(c, n) == c.retryDelay * Pow2(n)

\* Mutant: the loop ends one iteration early.
MoreAttemptsShort(c, n) == n < c.maxRetries - 1
\* for (...; attempt <= this.maxRetries; ...) with the sleep guard attempt < maxRetries
MoreAttempts(c, n) == n < c.maxRetries

IsServerError(e) == e.name = "ApiError" /\ JsGe(e.status, 500)

\* The time of the fetch() call that starts now, recorded for an instance
\* whose rate limiter is enabled.
FetchStarted(previous) == IF cfg.rateLimitDelay > 0 THEN now ELSE previous

\* One loop iteration up to the await of fetch(): new AbortController, the
\* abort timer, the fetch call.
StartAttempt(p) ==
  /\ pc' = [pc EXCEPT ![p] = "fetch"]
  /\ timer' = [timer EXCEPT ![p] = now + cfg.timeout]
  /\ httpCount' = [httpCount EXCEPT ![p] = @ + 1]
  /\ lastStart' = FetchStarted(lastStart)

\* request(): cache lookup, applyRateLimit up to its sleep, else the first attempt.
Request(p, o) ==
  /\ pc[p] \in {"idle", "returned", "thrown"}
  /\ opts' = [opts EXCEPT ![p] = o]
  /\ attempt' = [attempt EXCEPT ![p] = 0]
  /\ lastError' = [lastError EXCEPT ![p] = NoError]
  /\ status' = [status EXCEPT ![p] = 0]
  /\ retryAfterHeader' = [retryAfterHeader EXCEPT ![p] = 0]
  /\ sleeps' = [sleeps EXCEPT ![p] = <<>>]
  /\ onlyServerErrors' = [onlyServerErrors EXCEPT ![p] = TRUE]
  /\ UNCHANGED <<jiraVars, handlerVars, confVars, cfg, now>>
  /\ LET key == CacheKey(Endpoint, o)
         cached == IF IsGet(o) THEN GetCached(key) ELSE Null
     IN /\ cache' = IF IsGet(o) THEN CacheAfterGet(key) ELSE cache
        /\ expired' = [expired EXCEPT ![p] = IsGet(o) /\ CacheAfterGet(key) # cache]
        /\ IF IsGet(o) /\ TruthyValue(cached)
           THEN /\ pc' = [pc EXCEPT ![p] = "returned"]
                /\ result' = [result EXCEPT ![p] = cached]
                /\ fromCache' = [fromCache EXCEPT ![p] = TRUE]
                /\ httpCount' = [httpCount EXCEPT ![p] = 0]
                /\ timer' = [timer EXCEPT ![p] = 0]
                /\ UNCHANGED <<lastRequestTime, lastStart>>
           ELSE /\ result' = [result EXCEPT ![p] = Null]
                /\ fromCache' = [fromCache EXCEPT ![p] = FALSE]
                /\ IF cfg.rateLimitDelay > 0
                      /\ now - lastRequestTime < cfg.rateLimitDelay
                   THEN /\ pc' = [pc EXCEPT ![p] = "rateWait"]
                        /\ timer' = [timer EXCEPT ![p] =
                               now + (cfg.rateLimitDelay - (now - lastRequestTime))]
                        /\ httpCount' = [httpCount EXCEPT ![p] = 0]
                        /\ UNCHANGED <<lastRequestTime, lastStart>>
                   ELSE /\ lastRequestTime' =
                               IF cfg.rateLimitDelay > 0 THEN now ELSE lastRequestTime
                        /\ pc' = [pc EXCEPT ![p] = "fetch"]
                        /\ timer' = [timer EXCEPT ![p] = now + cfg.timeout]
                        /\ httpCount' = [httpCount EXCEPT ![p] = 1]
                        /\ lastStart' = FetchStarted(lastStart)

\* applyRateLimit after its sleep, then the first attempt.
RateWake(p) ==
  /\ pc[p] = "rateWait"
  /\ now >= timer[p]
  /\ lastRequestTime' = now
  /\ StartAttempt(p)
  /\ UNCHANGED <<jiraVars, handlerVars, confVars, cfg, now, cache, opts, attempt, lastError, status, retryAfterHeader, result,
                 sleeps, fromCache, expired, onlyServerErrors>>

\* The outer catch of the retry loop (lines 223-236) and the throw after it.
Fail(p, e) ==
  /\ lastError' = [lastError EXCEPT ![p] = e]
  /\ onlyServerErrors' = [onlyServerErrors EXCEPT ![p] = @ /\ IsServerError(e)]
  /\ IF NonRetryable(e)
     THEN /\ pc' = [pc EXCEPT ![p] = "thrown"]
          /\ timer' = [timer EXCEPT ![p] = 0]
          /\ UNCHANGED sleeps
     ELSE IF MoreAttempts(cfg, attempt[p])
     THEN /\ pc' = [pc EXCEPT ![p] = "backoff"]
          /\ timer' = [timer EXCEPT ![p] = now + BackoffDelay(cfg, attempt[p])]
          /\ sleeps' = [sleeps EXCEPT ![p] = Append(@, BackoffDelay(cfg, attempt[p]))]
     ELSE /\ pc' = [pc EXCEPT ![p] = "thrown"]
          /\ timer' = [timer EXCEPT ![p] = 0]
          /\ UNCHANGED sleeps

\* fetch() resolves with the response headers; clearTimeout(timeoutId).
HeadersArrive(p, s, ra) ==
  /\ pc[p] = "fetch"
  /\ pc' = [pc EXCEPT ![p] = "body"]
  /\ status' = [status EXCEPT ![p] = s]
  /\ retryAfterHeader' = [retryAfterHeader EXCEPT ![p] = ra]
  /\ timer' = [timer EXCEPT ![p] = 0]
  /\ UNCHANGED <<jiraVars, handlerVars, confVars, cfg, now, lastRequestTime, cache, opts, attempt, lastError,
                 result, httpCount, lastStart, sleeps, fromCache, expired, onlyServerErrors>>

\* The body has been read: parseErrorResponse and the ApiError of a non-ok
\* response, or parseResponse, setCached and the return.
BodyArrive(p, b) ==
  /\ pc[p] = "body"
  /\ UNCHANGED <<jiraVars, handlerVars, confVars, cfg, now, lastRequestTime, opts, attempt,
                 httpCount, lastStart, retryAfterHeader, fromCache, expired>>
  /\ status' = [status EXCEPT ![p] = 0]
  /\ IF ~Ok(status[p])
     THEN /\ Fail(p, ApiError(Num(status[p])))
          /\ UNCHANGED <<cache, result>>
     ELSE IF b = Malformed
     THEN /\ Fail(p, SyntaxError)
          /\ UNCHANGED <<cache, result>>
     ELSE /\ cache' = IF IsGet(opts[p])
                      THEN SetCached(CacheKey(Endpoint, opts[p]), b)
                      ELSE cache
          /\ result' = [result EXCEPT ![p] = b]
          /\ pc' = [pc EXCEPT ![p] = "returned"]
          /\ onlyServerErrors' = [onlyServerErrors EXCEPT ![p] = FALSE]
          /\ UNCHANGED <<lastError, timer, sleeps>>

\* The abort timer fires while fetch() is pending: AbortError, rethrown as
\* ApiError('Request timeout', 'TIMEOUT').
Abort(p) ==
  /\ pc[p] = "fetch"
  /\ now >= timer[p]
  /\ Fail(p, TimeoutError)
  /\ UNCHANGED <<jiraVars, handlerVars, confVars, cfg, now, lastRequestTime, cache, opts, attempt, status,
                 result, httpCount, lastStart, retryAfterHeader, fromCache, expired>>

\* fetch() rejects: DNS or connection failure.
NetworkFailure(p) ==
  /\ pc[p] = "fetch"
  /\ Fail(p, FetchError)
  /\ UNCHANGED <<jiraVars, handlerVars, confVars, cfg, now, lastRequestTime, cache, opts, attempt, status,
                 result, httpCount, lastStart, retryAfterHeader, fromCache, expired>>

\* The backoff sleep is over: attempt++ and the next iteration.
BackoffWake(p) ==
  /\ pc[p] = "backoff"
  /\ now >= timer[p]
  /\ attempt' = [attempt EXCEPT ![p] = @ + 1]
  /\ StartAttempt(p)
  /\ UNCHANGED <<jiraVars, handlerVars, confVars, cfg, now, lastRequestTime, cache, opts, lastError, status, retryAfterHeader,
                 result, sleeps, fromCache, expired, onlyServerErrors>>

\* clearCache()
ClearCache ==
  /\ cache' = IF cfg.enableCache THEN [k \in CacheKeys |-> NoEntry] ELSE cache
  /\ UNCHANGED <<jiraVars, handlerVars, confVars, cfg, now, lastRequestTime, pc, opts, attempt, lastError, status,
                 timer, result, httpCount, lastStart, retryAfterHeader, sleeps, fromCache, expired, onlyServerErrors>>

\* Date.now() advances.
Tick(limit) ==
  /\ now < limit
  /\ now' = now + 1
  /\ UNCHANGED <<jiraVars, handlerVars, confVars, cfg, lastRequestTime, cache, pc, opts, attempt, lastError, status,
                 timer, result, httpCount, lastStart, retryAfterHeader, sleeps, fromCache, expired, onlyServerErrors>>

ClientInit(configs) ==
  /\ \E config \in configs : cfg = Construct(config)
  /\ now = 0
  /\ lastRequestTime = Epoch
  /\ cache = [k \in CacheKeys |-> NoEntry]
  /\ pc = [p \in Callers |-> "idle"]
  /\ opts = [p \in Callers |-> [method |-> Absent]]
  /\ attempt = [p \in Callers |-> 0]
  /\ lastError = [p \in Callers |-> NoError]
  /\ status = [p \in Callers |-> 0]
  /\ retryAfterHeader = [p \in Callers |-> 0]
  /\ timer = [p \in Callers |-> 0]
  /\ result = [p \in Callers |-> Null]
  /\ httpCount = [p \in Callers |-> 0]
  /\ lastStart = -1
  /\ sleeps = [p \in Callers |-> <<>>]
  /\ fromCache = [p \in Callers |-> FALSE]
  /\ expired = [p \in Callers |-> FALSE]
  /\ onlyServerErrors = [p \in Callers |-> FALSE]

(***************************************************************************)
(* JiraMCPServer.makeJiraRequest                                           *)
(***************************************************************************)
JCallers == {"j1", "j2"}

\* The shapes of JIRA_URL: the bare site, or the site followed by an API path.
JiraUrls == {"", "/rest/api/2", "/rest/api/3", "/rest/api/latest"}

\* normalizeJiraUrl: the apiVersion it sets
NormalizeJiraUrl(path) ==
  IF path = "" THEN 3                   \* no '/rest/api/' in the URL
  ELSE IF path = "/rest/api/latest" THEN 3  \* the pattern does not match
  ELSE IF path = "/rest/api/3" THEN 3   \* apiPath.includes('/3')
  ELSE 2

\* The apiVersion argument of a call: 0 is null (the default), else an
\* explicit version.

\* Mutant: the default version is hard-wired.
ResolveVersionV3(arg, default) == IF arg # 0 THEN arg ELSE 3
\* const version = apiVersion || this.apiVersion
ResolveVersion(arg, default) == IF arg # 0 THEN arg ELSE default

\* Mutant: a 410 at version 3 is retried for an explicit version too.
FallbackExplicit(version, arg) == version = 3
\* Mutant: every 410 is retried.
FallbackAlways(version, arg) == TRUE
\* if (version === 3 && !apiVersion)
FallbackApplies(version, arg) == version = 3 /\ arg = 0

\* Mutant: the retry keeps the version that is gone.
KeepVersion(version) == version
\* this.apiVersion = 2 and the version passed to the recursive call
FallbackVersion(version) == 2

Top(j) == jframes[j][Len(jframes[j])]

NoOutcome == [kind |-> "none", msg |-> ""]
Returned == [kind |-> "returned", msg |-> ""]
Thrown(m) == [kind |-> "thrown", msg |-> m]

\* makeJiraRequest up to the await of fetch()
JStart(j, req, arg) ==
  /\ jpc[j] \in {"idle", "done"}
  /\ jframes' = [jframes EXCEPT ![j] =
        <<[req |-> req, arg |-> arg, version |-> ResolveVersion(arg, apiVersion)]>>]
  /\ jpc' = [jpc EXCEPT ![j] = "fetch"]
  /\ jstatus' = [jstatus EXCEPT ![j] = 0]
  /\ jout' = [jout EXCEPT ![j] = NoOutcome]
  /\ UNCHANGED <<clientVars, handlerVars, confVars, apiVersion>>

\* fetch() resolves; the call goes on to await response.text() or .json()
JRespond(j, s) ==
  /\ jpc[j] = "fetch"
  /\ jstatus' = [jstatus EXCEPT ![j] = s]
  /\ jpc' = [jpc EXCEPT ![j] = "body"]
  /\ UNCHANGED <<clientVars, handlerVars, confVars, apiVersion, jframes, jout>>

\* fetch() rejects: the catch block of the innermost frame, then the rethrow
\* through the catch blocks of the frames above it.
JNetworkError(j, code) ==
  /\ jpc[j] = "fetch"
  /\ jpc' = [jpc EXCEPT ![j] = "done"]
  /\ jout' = [jout EXCEPT ![j] =
        IF code \in {"ENOTFOUND", "ECONNREFUSED"}
        THEN Thrown("Cannot connect to Jira")
        ELSE Thrown("network error")]
  /\ jstatus' = [jstatus EXCEPT ![j] = 0]
  /\ UNCHANGED <<clientVars, handlerVars, confVars, apiVersion, jframes>>

\* The messages of the errors thrown for an error status.
GoneMessage == "Jira API endpoint no longer available (410 Gone)"
JErrorMessage(s) ==
  IF s = 410 THEN GoneMessage
  ELSE IF s = 401 THEN "Authentication failed"
  ELSE IF s = 404 THEN "Resource not found (404)"
  ELSE "Jira API error"

\* The body has been read: lines 263-352.
JBody(j, parses) ==
  /\ jpc[j] = "body"
  /\ jstatus' = [jstatus EXCEPT ![j] = 0]
  /\ UNCHANGED <<clientVars, handlerVars, confVars>>
  /\ IF jstatus[j] = 410 /\ FallbackApplies(Top(j).version, Top(j).arg)
     THEN \* downgrade, and the recursive call up to its fetch()
          /\ apiVersion' = FallbackVersion(Top(j).version)
          /\ jframes' = [jframes EXCEPT ![j] = Append(@,
                [req |-> Top(j).req,
                 arg |-> FallbackVersion(Top(j).version),
                 version |-> ResolveVersion(FallbackVersion(Top(j).version),
                                            apiVersion')])]
          /\ jpc' = [jpc EXCEPT ![j] = "fetch"]
          /\ UNCHANGED jout
     ELSE /\ jpc' = [jpc EXCEPT ![j] = "done"]
          /\ jout' = [jout EXCEPT ![j] =
                IF ~Ok(jstatus[j]) THEN Thrown(JErrorMessage(jstatus[j]))
                ELSE IF ~parses THEN Thrown("Invalid JSON")
                ELSE Returned]
          /\ UNCHANGED <<apiVersion, jframes>>

JiraInit ==
  /\ \E url \in JiraUrls : apiVersion = NormalizeJiraUrl(url)
  /\ jpc = [j \in JCallers |-> "idle"]
  /\ jframes = [j \in JCallers |-> <<>>]
  /\ jstatus = [j \in JCallers |-> 0]
  /\ jout = [j \in JCallers |-> NoOutcome]

\* No JiraMCPServer in the specifications of the other components.
JiraIdle ==
  /\ apiVersion = 3
  /\ jpc = [j \in JCallers |-> "idle"]
  /\ jframes = [j \in JCallers |-> <<>>]
  /\ jstatus = [j \in JCallers |-> 0]
  /\ jout = [j \in JCallers |-> NoOutcome]

\* No ApiClient call in the specifications of the other components.
ClientIdle ==
  ClientInit([maxRetries : {0}, retryDelay : {0}, timeout : {0},
              rateLimitDelay : {0}, enableCache : {FALSE}, cacheTimeout : {0}])

(***************************************************************************)
(* ErrorHandler                                                            *)
(***************************************************************************)
\* error.details: absent, null, a text body, or a parsed JSON object, which
\* may own a retryAfter property.
NoDetails == [kind |-> "absent", has |-> FALSE, ra |-> Undef]
NullDetails == [kind |-> "null", has |-> FALSE, ra |-> Undef]
EmptyText == [kind |-> "emptytext", has |-> FALSE, ra |-> Undef]
TextDetails == [kind |-> "text", has |-> FALSE, ra |-> Undef]
ObjectDetails == [kind |-> "object", has |-> FALSE, ra |-> Undef]
FreshDetails == [kind |-> "fresh", has |-> FALSE, ra |-> Undef]
DetailsTruthy(d) == d.kind \in {"text", "object"}

\* An error object as handle() reads it.
ErrorObject(name, ctor, st, code, details, retryAfter) ==
  [name |-> name, ctor |-> ctor, status |-> st, code |-> code,
   details |-> details, retryAfter |-> retryAfter]

NoHandled == [threw |-> FALSE, name |-> "none", message |-> "", code |-> Undef,
              details |-> NoDetails, recoverable |-> FALSE]
Formatted(name, message, code, details, recoverable) ==
  [threw |-> FALSE, name |-> name, message |-> message, code |-> code,
   details |-> details, recoverable |-> recoverable]
\* details.retryAfter = ... on a string primitive, in module (strict) code
ThrewTypeError ==
  [threw |-> TRUE, name |-> "TypeError", message |-> "Cannot create property",
   code |-> Undef, details |-> NoDetails, recoverable |-> FALSE]

\* let details = error.details || {}
DetailsOf(e) == IF DetailsTruthy(e.details) THEN e.details ELSE FreshDetails

\* The message chosen by the status chain of handleApiError.
ApiMessage(st) ==
  IF JsIs(st, 400) THEN "Bad Request"
  ELSE IF JsIs(st, 401) THEN "Authentication failed"
  ELSE IF JsIs(st, 403) THEN "Permission denied"
  ELSE IF JsIs(st, 404) THEN "Resource not found"
  ELSE IF JsIs(st, 429) THEN "Rate limit exceeded"
  ELSE IF JsGe(st, 500) THEN "Server error"
  ELSE "original"

\* recoverable: status !== 401 && status !== 403
ApiRecoverable(st) == ~JsIs(st, 401) /\ ~JsIs(st, 403)

\* handleApiError
HandleApiError(e) ==
  LET st == JsOr(e.status, e.code)
      details == DetailsOf(e)
  IN IF JsIs(st, 429) /\ details.kind = "text"
     THEN ThrewTypeError
     ELSE Formatted("ApiError", ApiMessage(st), st,
                    IF JsIs(st, 429)
                    THEN [details EXCEPT !.has = TRUE, !.ra = e.retryAfter]
                    ELSE details,
                    ApiRecoverable(st))

\* The error object after handleApiError: details is the error's own object.
ErrorAfterApiError(e) ==
  LET st == JsOr(e.status, e.code)
  IN IF JsIs(st, 429) /\ e.details.kind = "object"
     THEN [e EXCEPT !.details.has = TRUE, !.details.ra = e.retryAfter]
     ELSE e

\* setupDefaultErrorMappings
Registered == {"ApiError", "NetworkError", "TimeoutError", "ValidationError",
               "TypeError", "AuthenticationError", "AuthorizationError",
               "NotFoundError", "ConflictError", "RateLimitError"}

\* this.errorMap.get(error.name) || this.errorMap.get(error.constructor.name)
HandlerFor(e) ==
  IF e.name \in Registered THEN e.name
  ELSE IF e.ctor \in Registered THEN e.ctor
  ELSE "generic"

\* handle(error)
Handle(e) ==
  LET h == HandlerFor(e)
  IN IF h = "ApiError" THEN HandleApiError(e)
     ELSE IF h = "NetworkError"
       THEN Formatted("NetworkError", "Network error occurred", Str("NETWORK_ERROR"),
                      FreshDetails, TRUE)
     ELSE IF h = "TimeoutError"
       THEN Formatted("TimeoutError", "Request timed out", Str("TIMEOUT"),
                      FreshDetails, TRUE)
     ELSE IF h = "ValidationError"
       THEN Formatted("ValidationError", "original", Str("VALIDATION_ERROR"),
                      DetailsOf(e), FALSE)
     ELSE IF h = "TypeError"
       THEN Formatted("TypeError", "Type error", Str("TYPE_ERROR"), FreshDetails, FALSE)
     ELSE IF h \in {"AuthenticationError", "AuthorizationError"}
       THEN Formatted(e.name, "original", Str("AUTH_ERROR"), FreshDetails, FALSE)
     ELSE IF h = "NotFoundError"
       THEN Formatted("NotFoundError", "original", Str("NOT_FOUND"),
                      DetailsOf(e), FALSE)
     ELSE IF h = "ConflictError"
       THEN Formatted("ConflictError", "original", Str("CONFLICT"),
                      DetailsOf(e), FALSE)
     ELSE IF h = "RateLimitError"
       THEN Formatted("RateLimitError", "Rate limit exceeded", Str("RATE_LIMIT"),
                      FreshDetails, TRUE)
     ELSE Formatted(e.name, "original", JsOr(e.code, Str("UNKNOWN_ERROR")),
                    FreshDetails, FALSE)

\* The error object after handle(error).
ErrorAfterHandle(e) ==
  IF HandlerFor(e) = "ApiError" THEN ErrorAfterApiError(e) ELSE e

\* isRecoverable(error): handled.recoverable === true (it throws when handle does)
IsRecoverable(e) == ~Handle(e).threw /\ Handle(e).recoverable

\* The errors handed to handle(): name and constructor name, status, code,
\* details and retryAfter.
ErrorClasses ==
  {<<"ApiError", "ApiError">>, <<"ApiError", "Error">>,
   <<"NetworkError", "CustomError">>, <<"TimeoutError", "CustomError">>,
   <<"ValidationError", "CustomError">>, <<"TypeError", "TypeError">>,
   <<"AuthenticationError", "CustomError">>, <<"AuthorizationError", "CustomError">>,
   <<"NotFoundError", "CustomError">>, <<"ConflictError", "CustomError">>,
   <<"RateLimitError", "CustomError">>, <<"FetchError", "FetchError">>,
   <<"SyntaxError", "SyntaxError">>, <<"Error", "Error">>}
Errors ==
  {ErrorObject(c[1], c[2], st, code, d, ra) :
     c \in ErrorClasses,
     st \in {Undef, Str("TIMEOUT")}
             \cup {Num(s) : s \in {400, 401, 403, 404, 410, 422, 429, 500, 503}},
     code \in {Undef, Str("ECONNREFUSED")},
     d \in {NoDetails, NullDetails, EmptyText, TextDetails, ObjectDetails},
     ra \in {Undef, Num(30)}}

NoErrorObject == ErrorObject("none", "none", Undef, Undef, NoDetails, Undef)

\* A caller has caught herror and hands it to handle().
HandleCall ==
  /\ handled = NoHandled
  /\ handled' = Handle(herror)
  /\ herror' = ErrorAfterHandle(herror)
  /\ UNCHANGED reply
  /\ UNCHANGED <<clientVars, jiraVars, confVars>>

(***************************************************************************)
(* The CallTool request handlers of the three servers                      *)
(***************************************************************************)
Servers == {"JiraMCPServer", "ConfluenceMCPServer", "BaseServer"}

\* error.message of the error a tool raised, and of the handlers' own error.
ToolFailure == "tool failure"
UnknownTool == "Unknown tool: <name>"
\* new Error(`Unknown tool: ${name}`)
UnknownToolError == ErrorObject("Error", "Error", Undef, Undef, NoDetails, Undef)

NoReply == [kind |-> "none", text |-> "", server |-> "", known |-> TRUE]
Resolved(text, server, known) ==
  [kind |-> "resolved", text |-> text, server |-> server, known |-> known]
Rejected(text, server, known) ==
  [kind |-> "rejected", text |-> text, server |-> server, known |-> known]

\* The text of the formatted record: the handler's own message, or the
\* message of the error where the record carries it over.
FormattedMessage(formatted, message) ==
  IF formatted.message = "original" THEN message ELSE formatted.message
\* responseFormatter.error(formattedError): a response carrying the message
FormatErrorResponse(formatted, message) == FormattedMessage(formatted, message)

\* The CallTool handler of a server for a tool name that is registered or
\* not; a registered tool returns, or raises herror.
CallTool(server, known, fails) ==
  /\ handled = NoHandled /\ reply = NoReply
  /\ LET error == IF known THEN herror ELSE UnknownToolError
         message == IF known THEN ToolFailure ELSE UnknownTool
     IN IF known /\ ~fails
        THEN /\ reply' = Resolved("result", server, known)
             /\ UNCHANGED <<herror, handled>>
        ELSE IF server = "BaseServer"
        THEN \* const formattedError = this.errorHandler.handle(error)
             /\ handled' = Handle(error)
             /\ herror' = ErrorAfterHandle(error)
             /\ reply' = IF Handle(error).threw
                         THEN Rejected(Handle(error).name, server, known)
                         ELSE Resolved(FormatErrorResponse(Handle(error), message),
                                       server, known)
        ELSE \* text: `Error: ${error.message}`
             /\ reply' = Resolved(message, server, known)
             /\ herror' = error
             /\ UNCHANGED handled
  /\ UNCHANGED <<clientVars, jiraVars, confVars>>

\* No ErrorHandler call in the specifications of the other components.
HandlerIdle ==
  /\ herror = NoErrorObject
  /\ handled = NoHandled
  /\ reply = NoReply

HandlerInit ==
  /\ herror \in Errors
  /\ handled = NoHandled
  /\ reply = NoReply

(***************************************************************************)
(* ConfluenceMCPServer: checkV2ApiAvailability, createPage, updatePage     *)
(***************************************************************************)
ConfCallers == {"k1", "k2"}

\* Bound of the model: the page is updated at most up to this version.
MaxPageVersion == 3

\* Characters of a spaceKey or pageId argument.
Digits == {"0", "1", "2"}
Letters == {"A", "d"}
\* /^[A-Z0-9]+$/i.test(spaceKey)
Alphanumeric(s) == Len(s) > 0 /\ \A i \in 1..Len(s) : s[i] \in Letters \cup Digits
\* /^\d+$/.test(pageId)
Numeric(s) == Len(s) > 0 /\ \A i \in 1..Len(s) : s[i] \in Digits

\* The arguments of createPage and updatePage: keys and ids as character
\* sequences, the title by its length (0: no title), the content.
SpaceKeys == {<<>>, <<"d", "1">>, <<"A", " ", "d">>}
PageIds == {<<>>, <<"1", "2">>, <<"1", "A">>}
TitleLengths == {0, 255, 256}
NoArgs == [spaceKey |-> <<>>, pageId |-> <<>>, titleLen |-> 0, content |-> ""]
\* Valid arguments, and arguments that fail one check or two.
CreateArg(s, n, c) == [NoArgs EXCEPT !.spaceKey = s, !.titleLen = n, !.content = c]
CreateArgs ==
  {CreateArg(s, 255, "<p>c</p>") : s \in SpaceKeys}
    \cup {CreateArg(<<"d", "1">>, n, "<p>c</p>") : n \in TitleLengths}
    \cup {CreateArg(<<"d", "1">>, 255, c) : c \in {"", "<p>c</p>"}}
    \cup {CreateArg(<<"A", " ", "d">>, 256, "<p>c</p>")}
UpdateArg(i, n, c) == [NoArgs EXCEPT !.pageId = i, !.titleLen = n, !.content = c]
UpdateArgs ==
  {UpdateArg(i, 255, "<p>c</p>") : i \in PageIds}
    \cup {UpdateArg(<<"1", "2">>, n, "<p>c</p>") : n \in TitleLengths}
    \cup {UpdateArg(<<"1", "2">>, 255, c) : c \in {"", "<p>c</p>"}}
    \cup {UpdateArg(<<"1", "A">>, 256, "<p>c</p>")}

Valid == ""

\* Mutant: the title length is not checked.
CreateValidationNoLength(a) ==
  IF a.spaceKey = <<>> \/ a.titleLen = 0 \/ a.content = ""
  THEN "Missing required parameters: spaceKey, title, and content are required"
  ELSE IF ~Alphanumeric(a.spaceKey) THEN "Invalid spaceKey format"
  ELSE Valid
\* createPage: the input validation of lines 1093-1104
CreateValidation(a) ==
  IF a.spaceKey = <<>> \/ a.titleLen = 0 \/ a.content = ""
  THEN "Missing required parameters: spaceKey, title, and content are required"
  ELSE IF a.titleLen > 255 THEN "Title exceeds maximum length of 255 characters"
  ELSE IF ~Alphanumeric(a.spaceKey) THEN "Invalid spaceKey format"
  ELSE Valid
\* updatePage: the input validation of lines 1225-1236
UpdateValidation(a) ==
  IF a.pageId = <<>> \/ a.content = ""
  THEN "Missing required parameters: pageId and content are required"
  ELSE IF a.titleLen # 0 /\ a.titleLen > 255 THEN "Title exceeds maximum length of 255 characters"
  ELSE IF ~Numeric(a.pageId) THEN "Invalid pageId format"
  ELSE Valid


KReturned(m) == [kind |-> "returned", msg |-> m]

\* One call: its position, its arguments and locals (currentPage.version.number
\* as read, the version.number of the PUT body), the requests it has sent and
\* its outcome.
IdleCall == [pc |-> "idle", op |-> "none", args |-> NoArgs, read |-> 0, put |-> 0,
             sent |-> <<>>, out |-> NoOutcome]
NewCall(op, a) == [IdleCall EXCEPT !.op = op, !.args = a]
\* The call is over: its arguments are gone, what it sent and its outcome remain.
Finish(c, out) == [c EXCEPT !.pc = "done", !.out = out, !.args = NoArgs]
Send(c, url, next) == [c EXCEPT !.pc = next, !.sent = Append(@, url)]

\* The error a failed call rejects with: the catch blocks of lines 1217 and 1353.
Failure(c) ==
  IF c.op = "createPage" THEN Thrown("Failed to create page")
  ELSE IF c.op = "updatePage" THEN Thrown("Failed to update page")
  ELSE Thrown("")

\* The call once checkV2ApiAvailability has returned useV2.
Continue(c, useV2) ==
  IF c.op = "createPage"
  THEN IF useV2 THEN Send(c, "GET /api/v2/spaces?keys={spaceKey}", "spaceId")
       ELSE Send(c, "POST /rest/api/content", "write")
  ELSE IF c.op = "updatePage"
  THEN [Send(c, IF useV2 THEN "PUT /api/v2/pages/{pageId}"
                         ELSE "PUT /rest/api/content/{pageId}", "write")
          EXCEPT !.put = c.read + 1]
  ELSE Finish(c, KReturned(IF useV2 THEN "true" ELSE "false"))

\* checkV2ApiAvailability up to its first await: the cached result, or the
\* await of logger.debug before the probe.
CheckV2ApiAvailability(c, available) ==
  IF available # "null" THEN Continue(c, available = "true")
  ELSE [c EXCEPT !.pc = "probeLog"]

\* A direct call of checkV2ApiAvailability.
KCheck(k) ==
  /\ kcall[k].pc \in {"idle", "done"}
  /\ kcall' = [kcall EXCEPT ![k] =
        CheckV2ApiAvailability(NewCall("check", NoArgs), v2ApiAvailable)]
  /\ UNCHANGED <<v2ApiAvailable, probes, pageVersion>>
  /\ UNCHANGED <<clientVars, jiraVars, handlerVars, gpt>>

\* createPage(args) up to its first await.
KCreatePage(k, a) ==
  /\ kcall[k].pc \in {"idle", "done"}
  /\ kcall' = [kcall EXCEPT ![k] =
        IF CreateValidation(a) # Valid
        THEN Finish(NewCall("createPage", a), Thrown(CreateValidation(a)))
        ELSE CheckV2ApiAvailability(NewCall("createPage", a), v2ApiAvailable)]
  /\ UNCHANGED <<v2ApiAvailable, probes, pageVersion>>
  /\ UNCHANGED <<clientVars, jiraVars, handlerVars, gpt>>

\* updatePage(args) up to the fetch of the current page.
KUpdatePage(k, a) ==
  /\ kcall[k].pc \in {"idle", "done"}
  /\ kcall' = [kcall EXCEPT ![k] =
        IF UpdateValidation(a) # Valid
        THEN Finish(NewCall("updatePage", a), Thrown(UpdateValidation(a)))
        ELSE Send(NewCall("updatePage", a),
                  "GET /rest/api/content/{pageId}?expand=version,space", "getPage")]
  /\ UNCHANGED <<v2ApiAvailable, probes, pageVersion>>
  /\ UNCHANGED <<clientVars, jiraVars, handlerVars, gpt>>

\* The current page arrives (or makeConfluenceRequest throws), then
\* checkV2ApiAvailability up to its first await.
KGetPage(k, ok) ==
  /\ kcall[k].pc = "getPage"
  /\ kcall' = [kcall EXCEPT ![k] =
        IF ok
        THEN CheckV2ApiAvailability([@ EXCEPT !.read = pageVersion], v2ApiAvailable)
        ELSE Finish(@, Failure(@))]
  /\ UNCHANGED <<v2ApiAvailable, probes, pageVersion>>
  /\ UNCHANGED <<clientVars, jiraVars, handlerVars, gpt>>

\* logger.debug has resolved: the probe request is sent.
KProbeSend(k) ==
  /\ kcall[k].pc = "probeLog"
  /\ kcall' = [kcall EXCEPT ![k] = Send(@, "GET /api/v2/spaces?limit=1", "probeFetch")]
  /\ probes' = probes + 1
  /\ UNCHANGED <<v2ApiAvailable, pageVersion>>
  /\ UNCHANGED <<clientVars, jiraVars, handlerVars, gpt>>

\* The probe is answered (response.ok or not) or fetch rejects; the result
\* is stored and the caller goes on.
KProbeDone(k, r) ==
  /\ kcall[k].pc = "probeFetch"
  /\ v2ApiAvailable' = IF r = "ok" THEN "true" ELSE "false"
  /\ kcall' = [kcall EXCEPT ![k] = Continue(@, r = "ok")]
  /\ UNCHANGED <<probes, pageVersion>>
  /\ UNCHANGED <<clientVars, jiraVars, handlerVars, gpt>>

\* getSpaceIdFromKey: the v2 lookup is answered.
KSpaceId(k, r) ==
  /\ kcall[k].pc = "spaceId"
  /\ kcall' = [kcall EXCEPT ![k] =
        IF r = "found" THEN Send(@, "POST /api/v2/pages", "write")
        ELSE IF r = "error" THEN Finish(@, Failure(@))
        ELSE Send(@, "GET /rest/api/space/{spaceKey}", "spaceIdV1")]
  /\ UNCHANGED <<v2ApiAvailable, probes, pageVersion>>
  /\ UNCHANGED <<clientVars, jiraVars, handlerVars, gpt>>

\* getSpaceIdFromKey: the v1 lookup is answered.
KSpaceIdV1(k, ok) ==
  /\ kcall[k].pc = "spaceIdV1"
  /\ kcall' = [kcall EXCEPT ![k] =
        IF ok THEN Send(@, "POST /api/v2/pages", "write") ELSE Finish(@, Failure(@))]
  /\ UNCHANGED <<v2ApiAvailable, probes, pageVersion>>
  /\ UNCHANGED <<clientVars, jiraVars, handlerVars, gpt>>

\* The POST or PUT is answered. The site accepts a PUT only for the successor
\* of the page's version.
KWrite(k, ok) ==
  /\ kcall[k].pc = "write"
  /\ (ok /\ kcall[k].op = "updatePage")
       => kcall[k].put = pageVersion + 1 /\ pageVersion < MaxPageVersion
  /\ kcall' = [kcall EXCEPT ![k] =
        IF ok THEN Finish(@, KReturned(@.sent[Len(@.sent)])) ELSE Finish(@, Failure(@))]
  /\ pageVersion' = IF ok /\ kcall[k].op = "updatePage" THEN kcall[k].put
                    ELSE pageVersion
  /\ UNCHANGED <<v2ApiAvailable, probes>>
  /\ UNCHANGED <<clientVars, jiraVars, handlerVars, gpt>>

(***************************************************************************)
(* ConfluenceMCPServer.getPageTasks                                        *)
(***************************************************************************)
\* Bound of the model: the search returns at most this many results.
MaxResults == 3

\* A title, by the three tests of calculatePageTaskPriority on it.
PlainTitle == [urgent |-> FALSE, meeting |-> FALSE, dated |-> FALSE]
MeetingTitle == [urgent |-> FALSE, meeting |-> TRUE, dated |-> FALSE]
\* One search result: its position in response.results is its id.
SearchResult(i, type, title) == [id |-> i, type |-> type, title |-> title]
ResultKinds == {<<"page", PlainTitle>>, <<"page", MeetingTitle>>,
                <<"blogpost", PlainTitle>>}
\* response.results of the search
SearchResponses ==
  UNION {{[i \in 1..n |-> SearchResult(i, f[i][1], f[i][2])] :
            f \in [1..n -> ResultKinds]} : n \in 0..MaxResults}

\* What the fetch of one page gives: the request fails, the body has no
\* body.storage, or the stripped text, by the number of tasks
\* extractTasksFromContent finds in it and the numbers of matches counted by
\* calculatePageTaskPriority.
Outcome(kind, tasks, urgent, deadline, action, mention) ==
  [kind |-> kind, tasks |-> tasks, urgent |-> urgent, deadline |-> deadline,
   action |-> action, mention |-> mention]
Pending == Outcome("pending", 0, 0, 0, 0, 0)
PageOutcomes ==
  {Outcome("failed", 0, 0, 0, 0, 0),
   Outcome("malformed", 0, 0, 0, 0, 0),
   Outcome("content", 0, 0, 0, 1, 0),
   Outcome("content", 1, 0, 0, 12, 0),
   Outcome("content", 2, 1, 1, 11, 0)}

\* calculatePageTaskPriority(title, content)
CalculatePageTaskPriority(title, content) ==
  (IF title.urgent THEN 10 ELSE 0) + (IF title.meeting THEN 5 ELSE 0)
    + (IF title.dated THEN 3 ELSE 0)
    + content.urgent * 2 + content.deadline * 3
    + (IF content.action < 10 THEN content.action ELSE 10)
    + content.mention * 2

\* The value of one page promise: null, or the page's entry.
NullPage == [id |-> 0, title |-> PlainTitle, taskCount |-> 0, priority |-> 0]
\* Mutant: a page is reported whether tasks were found in it or not.
HasTasksAlways(content) == TRUE
\* extractedTasks.length > 0
HasTasks(content) == content.tasks > 0
\* The mapper of lines 912-947: try, the return of the entry or null, catch.
ProcessPage(res, fetched) ==
  IF fetched.kind = "content" /\ HasTasks(fetched)
  THEN [id |-> res.id, title |-> res.title, taskCount |-> fetched.tasks,
        priority |-> CalculatePageTaskPriority(res.title, fetched)]
  ELSE NullPage

RECURSIVE Pick(_, _)
\* The values at the given positions, in that order, nulls left out.
Pick(values, positions) ==
  IF positions = <<>> THEN <<>>
  ELSE LET rest == Pick(values, Tail(positions))
       IN IF values[Head(positions)] # NullPage
          THEN <<values[Head(positions)]>> \o rest
          ELSE rest
\* Mutant: the values are collected in the order the fetches completed.
CollectByCompletion(c) == Pick(c.settled, c.order)
\* for (const result of results): the fulfilled, non-null values in the order
\* of pagePromises
Collect(c) == Pick(c.settled, [i \in 1..Len(c.settled) |-> i])

RECURSIVE Insert(_, _)
\* One step of a stable sort with the comparator b.priority - a.priority:
\* page goes behind every entry that does not compare after it.
Insert(page, sorted) ==
  IF sorted = <<>> THEN <<page>>
  ELSE IF Head(sorted).priority - page.priority < 0 THEN <<page>> \o sorted
  ELSE <<Head(sorted)>> \o Insert(page, Tail(sorted))
RECURSIVE SortByPriority(_)
\* taskPages.sort((a, b) => b.priority - a.priority)
SortByPriority(pages) ==
  IF pages = <<>> THEN <<>>
  ELSE Insert(pages[Len(pages)],
              SortByPriority(SubSeq(pages, 1, Len(pages) - 1)))

IdleTasks == [pc |-> "idle", results |-> <<>>, pageResults |-> <<>>,
              fetched |-> <<>>, settled |-> <<>>, order |-> <<>>,
              out |-> [kind |-> "none", total |-> 0, pages |-> <<>>]]

\* getPageTasks(args) up to the await of the search request.
GGetPageTasks ==
  /\ gpt.pc \in {"idle", "done"}
  /\ gpt' = [IdleTasks EXCEPT !.pc = "search"]
  /\ UNCHANGED <<v2ApiAvailable, probes, pageVersion, kcall>>
  /\ UNCHANGED <<clientVars, jiraVars, handlerVars>>

\* The search is answered: makeConfluenceRequest throws, or the results are
\* filtered and one fetch per page is started.
GSearchDone(ok, results) ==
  /\ gpt.pc = "search"
  /\ gpt' =
       IF ~ok
       THEN [gpt EXCEPT !.pc = "done", !.out.kind = "thrown"]
       ELSE LET pageResults == SelectSeq(results, LAMBDA r : r.type = "page")
            IN [gpt EXCEPT !.pc = "pages",
                           !.results = results,
                           !.pageResults = pageResults,
                           !.fetched = [i \in 1..Len(pageResults) |-> Pending],
                           !.settled = [i \in 1..Len(pageResults) |-> NullPage]]
  /\ UNCHANGED <<v2ApiAvailable, probes, pageVersion, kcall>>
  /\ UNCHANGED <<clientVars, jiraVars, handlerVars>>

\* The fetch of page i is over and its promise settles.
GPageDone(i, fetched) ==
  /\ gpt.pc = "pages"
  /\ i \in 1..Len(gpt.pageResults)
  /\ gpt.fetched[i] = Pending
  /\ gpt' = [gpt EXCEPT !.fetched[i] = fetched,
                        !.settled[i] = ProcessPage(gpt.pageResults[i], fetched),
                        !.order = Append(@, i)]
  /\ UNCHANGED <<v2ApiAvailable, probes, pageVersion, kcall>>
  /\ UNCHANGED <<clientVars, jiraVars, handlerVars>>

\* Promise.allSettled has resolved: collect, sort, return.
GCollect ==
  /\ gpt.pc = "pages"
  /\ \A i \in 1..Len(gpt.fetched) : gpt.fetched[i] # Pending
  /\ gpt' = [gpt EXCEPT !.pc = "done",
                        !.out = [kind |-> "returned",
                                 total |-> Len(gpt.results),
                                 pages |-> SortByPriority(Collect(gpt))]]
  /\ UNCHANGED <<v2ApiAvailable, probes, pageVersion, kcall>>
  /\ UNCHANGED <<clientVars, jiraVars, handlerVars>>

ConfInit ==
  /\ v2ApiAvailable = "null"
  /\ probes = 0
  /\ pageVersion = 1
  /\ kcall = [k \in ConfCallers |-> IdleCall]
  /\ gpt = IdleTasks


InitConfluence == ClientIdle /\ JiraIdle /\ HandlerIdle /\ ConfInit
NextConfluence ==
  \/ \E k \in ConfCallers : KCheck(k)
  \/ \E k \in ConfCallers, a \in CreateArgs : KCreatePage(k, a)
  \/ \E k \in ConfCallers, a \in UpdateArgs : KUpdatePage(k, a)
  \/ \E k \in ConfCallers, ok \in BOOLEAN : KGetPage(k, ok)
  \/ \E k \in ConfCallers : KProbeSend(k)
  \/ \E k \in ConfCallers, r \in {"ok", "notok", "error"} : KProbeDone(k, r)
  \/ \E k \in ConfCallers, r \in {"found", "fallback", "error"} : KSpaceId(k, r)
  \/ \E k \in ConfCallers, ok \in BOOLEAN : KSpaceIdV1(k, ok)
  \/ \E k \in ConfCallers, ok \in BOOLEAN : KWrite(k, ok)
SpecConfluence == InitConfluence /\ [][NextConfluence]_vars

\* getPageTasks: one call at a time, every search response of up to
\* MaxResults results, the page fetches completing in any order.
InitTasks == ClientIdle /\ JiraIdle /\ HandlerIdle /\ ConfInit
NextTasks ==
  \/ GGetPageTasks
  \/ \E ok \in BOOLEAN, results \in SearchResponses : GSearchDone(ok, results)
  \/ \E i \in 1..MaxResults, fetched \in PageOutcomes : GPageDone(i, fetched)
  \/ GCollect
SpecTasks == InitTasks /\ [][NextTasks]_vars

InitHandler == ClientIdle /\ JiraIdle /\ HandlerInit /\ ConfInit
NextHandler ==
  \/ HandleCall
  \/ \E server \in Servers, known \in BOOLEAN, fails \in BOOLEAN :
       CallTool(server, known, fails)
SpecHandler == InitHandler /\ [][NextHandler]_vars

InitJira == ClientIdle /\ JiraInit /\ HandlerIdle /\ ConfInit
NextJira ==
  \/ \E j \in JCallers, req \in {"/search/jql", "/myself"}, arg \in {0, 2, 3} :
       JStart(j, req, arg)
  \/ \E j \in JCallers, s \in {200, 401, 404, 410, 429, 500} : JRespond(j, s)
  \/ \E j \in JCallers, code \in {"ENOTFOUND", "ECONNREFUSED", "ETIMEDOUT"} :
       JNetworkError(j, code)
  \/ \E j \in JCallers, parses \in BOOLEAN : JBody(j, parses)
SpecJira == InitJira /\ [][NextJira]_vars

\* The retry loop: one caller at a time, every retry budget, with and
\* without the rate limiter, no cache.
SeqCallers == {"c1"}

Init ==
  /\ ClientInit([maxRetries : {0, 1, 2}, retryDelay : {1, 2}, timeout : {2},
                 rateLimitDelay : {0, 1}, enableCache : {FALSE}, cacheTimeout : {2}])
  /\ JiraIdle /\ HandlerIdle /\ ConfInit
Next ==
  \/ \E p \in SeqCallers, m \in Methods : Request(p, [method |-> m])
  \/ \E p \in SeqCallers : RateWake(p)
  \/ \E p \in SeqCallers, s \in Statuses :
       \E ra \in RetryAfterHeaders(s) : HeadersArrive(p, s, ra)
  \/ \E p \in SeqCallers, b \in Values \cup {Malformed} : BodyArrive(p, b)
  \/ \E p \in SeqCallers : Abort(p)
  \/ \E p \in SeqCallers : NetworkFailure(p)
  \/ \E p \in SeqCallers : BackoffWake(p)
  \/ ClearCache
  \/ Tick(MaxTime)
Spec == Init /\ [][Next]_vars

\* The TTL cache: one caller at a time, cache enabled, with and without the
\* rate limiter, a short retry budget and a shorter horizon.

InitCache ==
  /\ ClientInit([maxRetries : {1}, retryDelay : {1}, timeout : {2},
                 rateLimitDelay : {0, 2}, enableCache : {TRUE}, cacheTimeout : {2, 3}])
  /\ JiraIdle /\ HandlerIdle /\ ConfInit
NextCache ==
  \/ \E p \in SeqCallers, m \in Methods : Request(p, [method |-> m])
  \/ \E p \in SeqCallers : RateWake(p)
  \/ \E p \in SeqCallers, s \in Statuses :
       \E ra \in RetryAfterHeaders(s) : HeadersArrive(p, s, ra)
  \/ \E p \in SeqCallers, b \in Values \cup {Malformed} : BodyArrive(p, b)
  \/ \E p \in SeqCallers : Abort(p)
  \/ \E p \in SeqCallers : NetworkFailure(p)
  \/ \E p \in SeqCallers : BackoffWake(p)
  \/ ClearCache
  \/ Tick(MaxCacheTime)
SpecCache == InitCache /\ [][NextCache]_vars

\* Overlapping calls: two callers on one instance with the cache enabled,
\* with and without the rate limiter, identical GETs.

InitConcurrent ==
  /\ ClientInit([maxRetries : {1}, retryDelay : {1}, timeout : {2},
                 rateLimitDelay : {0, 2}, enableCache : {TRUE}, cacheTimeout : {2}])
  /\ JiraIdle /\ HandlerIdle /\ ConfInit
NextConcurrent ==
  \/ \E p \in Callers : Request(p, [method |-> "GET"])
  \/ \E p \in Callers : RateWake(p)
  \/ \E p \in Callers, s \in {200, 503} : HeadersArrive(p, s, 0)
  \/ \E p \in Callers, b \in {"a", "b"} : BodyArrive(p, b)
  \/ \E p \in Callers : Abort(p)
  \/ \E p \in Callers : NetworkFailure(p)
  \/ \E p \in Callers : BackoffWake(p)
  \/ ClearCache
  \/ Tick(MaxConcurrentTime)
SpecConcurrent == InitConcurrent /\ [][NextConcurrent]_vars

\* Termination: one caller, timers that fire when they are due and a clock
\* that advances; the transport is free to stall, so no fairness is assumed
\* of the arrival of headers or bodies.

InitLive ==
  /\ ClientInit([maxRetries : {1}, retryDelay : {1}, timeout : {2},
                 rateLimitDelay : {0, 1}, enableCache : {FALSE}, cacheTimeout : {2}])
  /\ JiraIdle /\ HandlerIdle /\ ConfInit
NextLive ==
  \/ \E p \in SeqCallers, m \in Methods : Request(p, [method |-> m])
  \/ \E p \in SeqCallers : RateWake(p)
  \/ \E p \in SeqCallers, s \in Statuses :
       \E ra \in RetryAfterHeaders(s) : HeadersArrive(p, s, ra)
  \/ \E p \in SeqCallers, b \in Values \cup {Malformed} : BodyArrive(p, b)
  \/ \E p \in SeqCallers : Abort(p)
  \/ \E p \in SeqCallers : NetworkFailure(p)
  \/ \E p \in SeqCallers : BackoffWake(p)
  \/ ClearCache
  \/ Tick(MaxLiveTime)
SpecLive ==
  /\ InitLive /\ [][NextLive]_vars
  /\ WF_vars(Tick(MaxLiveTime))
  /\ \A p \in SeqCallers :
       WF_vars(Abort(p)) /\ WF_vars(BackoffWake(p)) /\ WF_vars(RateWake(p))

(***************************************************************************)
(* Claims                                                                  *)
(***************************************************************************)
ClientErrorStatuses == {400, 401, 403, 404, 410, 422}
GetMethods == {Absent, "GET"}

\* C1 (as stated): a call whose every attempt fails with a server error
\* (status >= 500) makes exactly maxRetries HTTP attempts and then throws
\* the server error.
C1_ExactlyMaxRetriesAttempts ==
  \A p \in Callers :
    pc[p] = "thrown" /\ onlyServerErrors[p]
      => httpCount[p] = cfg.maxRetries /\ IsServerError(lastError[p])

\* C1 (amended): a call whose every attempt fails with a server error makes
\* exactly maxRetries + 1 HTTP attempts (the first one and maxRetries
\* retries) and then throws the server error; no call makes more.
C1_RetryBound ==
  \A p \in Callers :
    /\ httpCount[p] <= cfg.maxRetries + 1
    /\ pc[p] = "thrown" /\ onlyServerErrors[p]
         => httpCount[p] = cfg.maxRetries + 1 /\ IsServerError(lastError[p])

\* C1 witness: the default budget of 3 retries exhausted by server errors.
C1_Witness ==
  \E p \in Callers :
    /\ pc[p] = "thrown" /\ onlyServerErrors[p]
    /\ cfg.maxRetries = DefaultMaxRetries
    /\ httpCount[p] = 4

\* C2: an attempt that receives 400, 401, 403, 404, 410 or 422 ends the call
\* at once: the error is thrown, no backoff sleep is pending, and when it was
\* the first attempt exactly one HTTP attempt was made and nothing was slept.
C2_NoRetryOnClientError ==
  \A p \in Callers :
    (lastError[p].name = "ApiError" /\ lastError[p].status.k = "num"
       /\ lastError[p].status.n \in ClientErrorStatuses)
      => /\ pc[p] = "thrown"
         /\ timer[p] = 0
         /\ attempt[p] = 0 => httpCount[p] = 1 /\ sleeps[p] = <<>>

\* C2 witness: a first attempt answered 401.
C2_Witness ==
  \E p \in Callers :
    /\ pc[p] = "thrown" /\ lastError[p] = ApiError(Num(401))
    /\ attempt[p] = 0 /\ httpCount[p] = 1

C4_OneFallbackHop ==
  /\ [](\A j \in JCallers : Len(jframes[j]) <= 2)
  /\ [][\A j \in JCallers :
          (jpc[j] = "body" /\ jstatus[j] = 410
             /\ jframes[j][Len(jframes[j])].version = 2 /\ jpc'[j] # "body")
            => /\ jpc'[j] = "done"
               /\ jout'[j] = Thrown(GoneMessage)
               /\ jframes'[j] = jframes[j]]_vars

\* C4 witness: the downgraded request was answered 410 too.
C4_Witness ==
  \E j \in JCallers :
    /\ Len(jframes[j]) = 2 /\ jframes[j][1].version = 3
    /\ jout[j] = Thrown(GoneMessage)

\* C5: once apiVersion is 2 it stays 2, and every call started afterwards
\* with no explicit version sends its request to version 2 and sends no
\* other, whatever the other calls in flight do.
C5_DowngradeIsPermanent ==
  /\ [][apiVersion = 2 => apiVersion' = 2]_vars
  /\ [][\A j \in JCallers :
          (apiVersion = 2 /\ jpc[j] \in {"idle", "done"} /\ jpc'[j] = "fetch"
             /\ jframes'[j][1].arg = 0)
            => Len(jframes'[j]) = 1 /\ jframes'[j][1].version = 2]_vars
  /\ [](\A j \in JCallers :
          (Len(jframes[j]) >= 1 /\ jframes[j][1].arg = 0 /\ jframes[j][1].version = 2)
            => Len(jframes[j]) = 1)

\* C5 witness: one call has downgraded and waits for its version 2 answer
\* while another, started after the downgrade, is in flight at version 2.
C5_Witness ==
  \E j, k \in JCallers :
    /\ j # k /\ apiVersion = 2
    /\ Len(jframes[j]) = 2 /\ jframes[j][1].version = 3 /\ jpc[j] = "fetch"
    /\ Len(jframes[k]) = 1 /\ jframes[k][1].arg = 0
    /\ jframes[k][1].version = 2 /\ jpc[k] = "fetch"

\* C6 (as the test states it): a 410 received at the default version 3
\* rejects with the '410 Gone' error after exactly one HTTP request.
C6_GoneWithoutFallback ==
  [][\A j \in JCallers :
       (jpc[j] = "body" /\ jstatus[j] = 410 /\ Len(jframes[j]) = 1
          /\ jframes[j][1].arg = 0 /\ jframes[j][1].version = 3
          /\ jpc'[j] # "body")
         => /\ jpc'[j] = "done"
            /\ jout'[j] = Thrown(GoneMessage)
            /\ Len(jframes'[j]) = 1]_vars

\* C7: with the cache enabled, a GET that finds an entry younger than
\* cacheTimeout returns the stored value and makes no HTTP request, for any
\* stored value.
C7_CacheHitAvoidsIO ==
  [][\A p \in Callers, m \in GetMethods :
       LET key == CacheKey(Endpoint, [method |-> m])
       IN (Request(p, [method |-> m]) /\ cfg.enableCache /\ IsEntry(cache[key])
             /\ now - cache[key].timestamp < cfg.cacheTimeout)
            => /\ pc'[p] = "returned"
               /\ result'[p] = cache[key].data
               /\ httpCount'[p] = 0]_vars

\* C8: an entry is served only while now - timestamp < cacheTimeout; a lookup
\* at or after that age deletes the entry and the request goes on to an HTTP
\* attempt (after the rate limiter's sleep, if any).
C8_CacheExpiry ==
  /\ [][\A p \in Callers, m \in GetMethods :
          LET key == CacheKey(Endpoint, [method |-> m])
              fresh == now - cache[key].timestamp < cfg.cacheTimeout
          IN Request(p, [method |-> m]) =>
               /\ fromCache'[p] => /\ IsEntry(cache[key]) /\ fresh
                                   /\ result'[p] = cache[key].data
               /\ (cfg.enableCache /\ IsEntry(cache[key]) /\ ~fresh)
                    => /\ cache'[key] = NoEntry
                       /\ expired'[p] /\ ~fromCache'[p]
                       /\ result'[p] = Null
                       /\ pc'[p] \in {"fetch", "rateWait"}
                       /\ pc'[p] = "fetch" => httpCount'[p] = 1]_vars
  /\ [][\A p \in Callers :
          (pc[p] = "rateWait" /\ pc'[p] # "rateWait")
            => pc'[p] = "fetch" /\ httpCount'[p] = 1]_vars

\* C8 witness: the lookup deleted an expired entry and the HTTP attempt is
\* under way.
C8_Witness ==
  \E p \in Callers :
    /\ expired[p] /\ pc[p] = "fetch" /\ httpCount[p] = 1
    /\ cache[CacheKey(Endpoint, opts[p])] = NoEntry

\* C9: for an ApiError with HTTP status s, handle returns recoverable = true
\* exactly when s is 429 or s >= 500 (so false for 400, 401, 403, 404, 410, 422).
C9_RecoverabilityTable ==
  (handled # NoHandled /\ herror.name = "ApiError" /\ herror.status.k = "num")
    => /\ ~handled.threw
       /\ handled.recoverable <=> (herror.status.n = 429 \/ herror.status.n >= 500)

\* C10: after a failed attempt with attempts remaining, request() goes on to
\* retry exactly when isRecoverable marks that error recoverable.
C10_RetryFollowsClassifier ==
  \A p \in Callers :
    (lastError[p] # NoError /\ pc[p] \in {"backoff", "thrown"}
       /\ attempt[p] < cfg.maxRetries)
      => \A d \in {NullDetails, TextDetails, ObjectDetails} :
           (pc[p] = "backoff") <=>
             IsRecoverable(ErrorObject(lastError[p].name, lastError[p].name,
                                       lastError[p].status, Undef, d, Undef))

\* C11: request() returns a value only from a fresh cache entry or from an
\* attempt whose response was 2xx and parsed; every attempt that ends the
\* call otherwise throws, and what is thrown (or kept for the retry) is the
\* error of that attempt; a success after failed attempts returns the value.
C11_NoFailureSwallowed ==
  /\ [](\A p \in Callers :
          /\ pc[p] = "thrown" => lastError[p] # NoError /\ result[p] = Null
          /\ (pc[p] = "returned" /\ ~fromCache[p])
               => httpCount[p] >= 1 /\ result[p] \in Values)
  /\ [][\A p \in Callers :
          /\ (\E m \in Methods : Request(p, [method |-> m]))
               => /\ pc'[p] # "thrown"
                  /\ pc'[p] = "returned"
                       => LET e == cache[CacheKey(Endpoint, opts'[p])]
                          IN /\ IsGet(opts'[p]) /\ IsEntry(e)
                             /\ now - e.timestamp < cfg.cacheTimeout
                             /\ result'[p] = e.data /\ httpCount'[p] = 0
          /\ (pc[p] = "body" /\ pc'[p] # "body")
               => IF status[p] \in 200..299 /\ result'[p] \in Values
                  THEN pc'[p] = "returned" /\ lastError'[p] = lastError[p]
                  ELSE /\ pc'[p] \in {"thrown", "backoff"}
                       /\ result'[p] = Null
                       /\ lastError'[p] =
                            IF status[p] \in 200..299 THEN SyntaxError
                            ELSE ApiError(Num(status[p]))
          /\ (pc[p] = "fetch" /\ pc'[p] \notin {"fetch", "body"})
               => /\ pc'[p] \in {"thrown", "backoff"}
                  /\ lastError'[p] \in {TimeoutError, FetchError}
          /\ (pc[p] \in {"rateWait", "backoff"} /\ pc'[p] # pc[p])
               => pc'[p] = "fetch" /\ lastError'[p] = lastError[p]]_vars

\* C11 witness: the first attempt was answered 429, the second one succeeded
\* and the caller has the value.
C11_Witness ==
  \E p \in Callers :
    /\ pc[p] = "returned" /\ ~fromCache[p] /\ attempt[p] = 1
    /\ lastError[p] = ApiError(Num(429)) /\ result[p] = "a"

\* C12: once _v2ApiAvailable has left null it never takes a different value,
\* for any interleaving of the concurrent callers.
C12_ProbeResultIsTerminal ==
  [][v2ApiAvailable # "null" => v2ApiAvailable' = v2ApiAvailable]_vars

\* C13: at most one probe request is sent over the lifetime of the server,
\* whatever the number and interleaving of the callers.
C13_ProbeHappensOnce == probes <= 1

\* C14: with rateLimitDelay = d > 0, every HTTP attempt of the instance (a
\* first attempt or a retry, of any caller) starts at least d after the
\* attempt started before it.
C14_RateLimitSpacing ==
  [][\A p \in Callers :
       (pc[p] # "fetch" /\ pc'[p] = "fetch" /\ cfg.rateLimitDelay > 0
          /\ lastStart >= 0)
         => now - lastStart >= cfg.rateLimitDelay]_vars

\* C15: the wait that follows an attempt answered 429 with a Retry-After
\* value is at least that value.
C15_RetryAfterHonoured ==
  \A p \in Callers :
    (pc[p] = "backoff" /\ lastError[p] = ApiError(Num(429))
       /\ retryAfterHeader[p] > 0)
      => sleeps[p][Len(sleeps[p])] >= retryAfterHeader[p]

\* C16: an attempt whose 2xx response fails to parse ends the call: the
\* error is thrown and no further HTTP attempt is made.
C16_MalformedBodyNotRetried ==
  \A p \in Callers :
    lastError[p] = SyntaxError => pc[p] = "thrown" /\ timer[p] = 0

\* C17: every wait of an attempt on the transport, for the headers or for
\* the body, ends (by a response or by the abort of the attempt's timer),
\* provided it began a timeout before the end of the horizon.
C17_EveryAttemptIsBounded ==
  \A p \in SeqCallers :
    (pc[p] \in {"fetch", "body"} /\ now + cfg.timeout <= MaxLiveTime)
      ~> (pc[p] \notin {"fetch", "body"})

\* C18: a GET that finds no fresh entry while an identical GET of another
\* caller is in flight makes its own HTTP attempt; every successful GET
\* stores its own value, replacing what the other stored, and returns its
\* own value, and the other caller's value is untouched.
C18_NoInFlightDeduplication ==
  /\ [][\A p, q \in Callers :
          (p # q /\ Request(p, [method |-> "GET"])
             /\ pc[q] \in {"rateWait", "fetch", "body", "backoff"}
             /\ ~fromCache'[p])
            => /\ pc'[p] \in {"fetch", "rateWait"}
               /\ pc'[p] = "fetch" => httpCount'[p] = 1]_vars
  /\ [][\A p, q \in Callers :
          (p # q /\ pc[p] = "body" /\ pc'[p] = "returned")
            => /\ result'[p] \in Values
               /\ cache'[CacheKey(Endpoint, opts[p])] =
                    [data |-> result'[p], timestamp |-> now]
               /\ httpCount'[p] >= 1
               /\ result'[q] = result[q] /\ pc'[q] = pc[q]]_vars

\* C18 witness: c1 has returned and stored "a" while the identical GET of
\* c2, started before, is still reading its own response.
C18_Witness ==
  /\ opts["c1"] = opts["c2"]
  /\ pc["c1"] = "returned" /\ ~fromCache["c1"] /\ result["c1"] = "a"
  /\ cache[CacheKey(Endpoint, opts["c1"])] = [data |-> "a", timestamp |-> now]
  /\ pc["c2"] = "body" /\ status["c2"] = 200 /\ httpCount["c2"] = 1

\* C19: the CallTool handler of every server answers every call with a
\* response, never a rejection, whatever the tool raised; the response to an
\* unknown tool carries 'Unknown tool: <name>'.
C19_HandlerNeverRejects ==
  reply # NoReply
    => /\ reply.kind = "resolved"
       /\ ~reply.known => reply.text = UnknownTool

\* C20: createPage with a missing spaceKey, title or content, a title longer
\* than 255 characters or a spaceKey that is not alphanumeric, and updatePage
\* with a missing pageId or content, a title longer than 255 characters or a
\* pageId that is not numeric, reject at once: no HTTP request is sent and
\* _v2ApiAvailable, like the probe count, is unchanged.
C20_ValidationPrecedesIO ==
  /\ [][\A k \in ConfCallers :
          (kcall[k].pc \in {"idle", "done"} /\ kcall'[k].op = "createPage")
            => \A a \in CreateArgs :
                 ((\/ a.spaceKey = <<>> \/ a.titleLen = 0 \/ a.content = ""
                   \/ a.titleLen > 255
                   \/ \E i \in 1..Len(a.spaceKey) :
                        a.spaceKey[i] \notin Letters \cup Digits)
                    /\ KCreatePage(k, a))
                   => /\ kcall'[k].pc = "done" /\ kcall'[k].out.kind = "thrown"
                      /\ kcall'[k].sent = <<>>
                      /\ v2ApiAvailable' = v2ApiAvailable /\ probes' = probes]_vars
  /\ [][\A k \in ConfCallers :
          (kcall[k].pc \in {"idle", "done"} /\ kcall'[k].op = "updatePage")
            => \A a \in UpdateArgs :
                 ((\/ a.pageId = <<>> \/ a.content = ""
                   \/ a.titleLen > 255
                   \/ \E i \in 1..Len(a.pageId) : a.pageId[i] \notin Digits)
                    /\ KUpdatePage(k, a))
                   => /\ kcall'[k].pc = "done" /\ kcall'[k].out.kind = "thrown"
                      /\ kcall'[k].sent = <<>>
                      /\ v2ApiAvailable' = v2ApiAvailable /\ probes' = probes]_vars

\* C20 witness: a createPage call rejected for its title while the probe of
\* another call is in flight and no result is stored.
C20_Witness ==
  \E k, j \in ConfCallers :
    /\ kcall[k].op = "createPage" /\ kcall[k].out = Thrown("Title exceeds maximum length of 255 characters")
    /\ kcall[k].sent = <<>>
    /\ kcall[j].pc = "probeFetch" /\ v2ApiAvailable = "null"

\* C22: the GET requests of one URL share one cache entry, whether the
\* method is given as 'GET' (request() or get()) or omitted: the cache never
\* holds two entries for the same URL.
C22_StableCacheKey ==
  \A k1, k2 \in CacheKeys :
    (IsEntry(cache[k1]) /\ IsEntry(cache[k2])) => k1 = k2

\* C23: the sleep after failed attempt n (0-indexed) is retryDelay * 2^n, one
\* sleep per retry: a call in its backoff has slept attempt + 1 times, any
\* other call attempt times, so nothing is slept after the final attempt or
\* before a non-retryable error is thrown; the next attempt starts only when
\* the sleep is over.
C23_BackoffFormula ==
  /\ [](\A p \in Callers :
          /\ \A i \in 1..Len(sleeps[p]) : sleeps[p][i] = cfg.retryDelay * 2^(i - 1)
          /\ Len(sleeps[p]) = attempt[p] + (IF pc[p] = "backoff" THEN 1 ELSE 0)
          /\ pc[p] = "backoff" =>
                /\ ~NonRetryable(lastError[p])
                /\ attempt[p] < cfg.maxRetries
                /\ timer[p] <= now + cfg.retryDelay * 2^attempt[p])
  /\ [][\A p \in Callers :
          /\ (pc[p] = "backoff" /\ pc'[p] # "backoff")
               => (now >= timer[p] /\ attempt'[p] = attempt[p] + 1)
          /\ (pc[p] # "backoff" /\ pc'[p] = "backoff")
               => timer'[p] = now + cfg.retryDelay * 2^attempt[p]]_vars

\* C23 witness: a call that slept retryDelay and 2 * retryDelay threw after
\* its third attempt, with no third sleep.
C23_Witness ==
  \E p \in Callers :
    /\ pc[p] = "thrown" /\ attempt[p] = 2 /\ cfg.maxRetries = 2
    /\ ~NonRetryable(lastError[p])
    /\ sleeps[p] = <<cfg.retryDelay, 2 * cfg.retryDelay>>

\* C24: every change of a cache entry is one of three: the store of a GET
\* whose response was 2xx and parsed (its value, stamped now), the deletion
\* of an expired entry by the lookup of a GET for that key, or clearCache.
\* No step of a POST, no failed attempt and no exhausted call changes the
\* cache.
C24_CacheFrame ==
  [][\A k \in CacheKeys :
       cache'[k] # cache[k] =>
         \/ \E p \in Callers :
              /\ pc[p] = "body" /\ pc'[p] = "returned"
              /\ opts[p].method \in GetMethods /\ status[p] \in 200..299
              /\ k = <<Endpoint, Stringify(opts[p])>>
              /\ cache'[k] = [data |-> result'[p], timestamp |-> now]
         \/ \E p \in Callers :
              /\ pc[p] \in {"idle", "returned", "thrown"}
              /\ pc'[p] \in {"fetch", "rateWait"}
              /\ opts'[p].method \in GetMethods
              /\ k = <<Endpoint, Stringify(opts'[p])>>
              /\ now - cache[k].timestamp >= cfg.cacheTimeout
              /\ cache'[k] = NoEntry
         \/ ClearCache]_vars

\* C24 witness: a POST to the URL returned while the entry an earlier GET
\* stored is still in the cache.
C24_Witness ==
  \E p \in Callers, k \in CacheKeys :
    /\ pc[p] = "returned" /\ opts[p].method = "POST" /\ httpCount[p] = 1
    /\ IsEntry(cache[k]) /\ cache[k].timestamp < now

C28_OnlyGoneChangesVersion ==
  [][apiVersion' # apiVersion =>
       /\ apiVersion' = 2
       /\ \E j \in JCallers :
            /\ jpc[j] = "body" /\ jstatus[j] = 410
            /\ jframes[j][Len(jframes[j])].arg = 0
            /\ jframes[j][Len(jframes[j])].version = 3
            /\ jframes'[j] # jframes[j]]_vars

\* C28 witness: a call made with the explicit version 3 was answered 410 and
\* threw, and another made with no version was answered 500 and threw; the
\* default version is still 3.
C28_Witness ==
  \E j, k \in JCallers :
    /\ apiVersion = 3
    /\ jout[j] = Thrown("Jira API endpoint no longer available (410 Gone)")
    /\ Len(jframes[j]) = 1 /\ jframes[j][1].arg = 3
    /\ jout[k] = Thrown("Jira API error")
    /\ Len(jframes[k]) = 1 /\ jframes[k][1].arg = 0

\* C29: handle(error) leaves the error object it is given, error.details
\* included, as it was, for every error kind and HTTP status.
C29_HandleDoesNotMutateInput ==
  [][HandleCall => herror' = herror]_vars

\* C26: a probe that fails (a network exception or a response that is not
\* ok) makes its call return false and stores false; every
\* checkV2ApiAvailability call started after that returns false at once,
\* without a request.
C26_FailedProbeIsRemembered ==
  /\ [][\A k \in ConfCallers :
          (kcall[k].pc = "probeFetch" /\ kcall[k].op = "check"
             /\ \E r \in {"notok", "error"} : KProbeDone(k, r))
            => /\ v2ApiAvailable' = "false"
               /\ kcall'[k].pc = "done"
               /\ kcall'[k].out = [kind |-> "returned", msg |-> "false"]]_vars
  /\ [][\A j, k \in ConfCallers :
          (/\ kcall[j].pc = "done" /\ kcall[j].op = "check"
           /\ kcall[j].sent = <<"GET /api/v2/spaces?limit=1">>
           /\ kcall[j].out = [kind |-> "returned", msg |-> "false"]
           /\ kcall[k].pc \in {"idle", "done"}
           /\ kcall'[k] # kcall[k] /\ kcall'[k].op = "check")
            => /\ kcall'[k].pc = "done"
               /\ kcall'[k].sent = <<>>
               /\ kcall'[k].out = [kind |-> "returned", msg |-> "false"]]_vars

\* C30: two updatePage calls on the page whose PUT requests are both
\* outstanding submit different version numbers, and every PUT carries the
\* successor of the version the page has when the PUT is sent.
C30_DistinctSuccessorVersions ==
  /\ [](\A j, k \in ConfCallers :
          (j # k /\ kcall[j].op = "updatePage" /\ kcall[k].op = "updatePage"
             /\ kcall[j].pc = "write" /\ kcall[k].pc = "write")
            => kcall[j].put # kcall[k].put)
  /\ [][\A k \in ConfCallers :
          (kcall'[k].op = "updatePage" /\ kcall[k].pc # "write"
             /\ kcall'[k].pc = "write")
            => kcall'[k].put = pageVersion + 1]_vars

\* C21: whichever page fetches fail, getPageTasks resolves once the search
\* has succeeded, and its pages are exactly the search results of type
\* 'page' whose fetch succeeded and gave at least one task, each once.
C21_PerPageFailureIsolation ==
  LET good == {i \in 1..Len(gpt.pageResults) :
                 gpt.fetched[i].kind = "content" /\ gpt.fetched[i].tasks >= 1}
      pages == gpt.out.pages
  IN /\ (gpt.pc = "done" /\ gpt.out.kind = "thrown") => gpt.pageResults = <<>>
     /\ (gpt.pc = "done" /\ gpt.out.kind = "returned")
          => /\ {pages[n].id : n \in 1..Len(pages)}
                  = {gpt.pageResults[i].id : i \in good}
             /\ Len(pages) = Cardinality(good)
             /\ {gpt.pageResults[i].id : i \in 1..Len(gpt.pageResults)}
                  = {r \in 1..Len(gpt.results) : gpt.results[r].type = "page"}
             /\ gpt.out.total = Len(gpt.results)

\* C21 witness: the call returned the one page with tasks although the
\* fetch of another page failed and a third had a body without storage.
C21_Witness ==
  /\ gpt.pc = "done" /\ gpt.out.kind = "returned"
  /\ Len(gpt.pageResults) = 3 /\ Len(gpt.out.pages) = 1
  /\ gpt.fetched[1].kind = "failed" /\ gpt.fetched[2].kind = "malformed"
  /\ gpt.out.pages[1].id = 3

\* C27: the returned pages are in non-increasing order of priority and pages
\* of equal priority are in the order of the search results, whatever the
\* order in which the fetches completed.
C27_OutputOrder ==
  (gpt.pc = "done" /\ gpt.out.kind = "returned")
    => \A m, n \in 1..Len(gpt.out.pages) :
         m < n => /\ gpt.out.pages[m].priority >= gpt.out.pages[n].priority
                  /\ gpt.out.pages[m].priority = gpt.out.pages[n].priority
                       => gpt.out.pages[m].id < gpt.out.pages[n].id

\* C27 witness: three pages whose fetches completed last to first; the third
\* search result has the highest priority and the other two are equal.
C27_Witness ==
  /\ gpt.pc = "done" /\ gpt.order = <<3, 2, 1>>
  /\ Len(gpt.out.pages) = 3
  /\ gpt.out.pages[1].id = 3
  /\ gpt.out.pages[2].id = 1 /\ gpt.out.pages[3].id = 2
  /\ gpt.out.pages[1].priority > gpt.out.pages[2].priority
  /\ gpt.out.pages[2].priority = gpt.out.pages[3].priority
  /\ gpt.pageResults[1].title # gpt.pageResults[2].title
====
